---- MODULE Spec2Model ----
(***************************************************************************)
(* Violation analysis pipeline of services/violation_detector/main.py:     *)
(* the per-frame sequence tracker, the scooper-usage classifier and the    *)
(* violation arbiter of the one global ViolationDetector instance, driven  *)
(* by /analyze requests; and, in front of it, the frame reader of          *)
(* services/frame_reader/main.py, which calls the detection service,       *)
(* fetches the ROI zones and posts each frame to /analyze, and behind it   *)
(* the Violation Store the emitted events are written to.                  *)
(*                                                                         *)
(* Encodings.  Wall-clock time (datetime.now(), time.time()) is the        *)
(* integer `now`, in seconds.  Pixel coordinates are integers.  A distance *)
(* is kept as its square (the code compares sqrt(d2) with 50, 100, 150;    *)
(* the model compares d2 with 50*50, ...), float('inf') is INF.  None is 0 *)
(* for worker ids and frame ids (both start from 1) and -1 for a time.     *)
(* Frame ids are the frame reader's frame counter.                         *)
(***************************************************************************)
EXTENDS Integers, Sequences, FiniteSets, TLC

VARIABLES
    detector,        \* the global ViolationDetector instance (its sequence, dedup and cooldown state)
    tasks,           \* the /analyze requests in flight: where each is suspended and its local `violations`
    now,             \* wall clock, seconds
    frame_count,     \* FrameReader.frame_count: id of the last frame produced
    last_request,    \* the request body sent last (it can be submitted again)
    analyses,        \* number of runs of the detection loop so far
    events,          \* every ViolationEvent appended to a `violations` list so far
    opened,          \* every sequence ever created by _update_roi_sequence
    closed,          \* every removal of a sequence from active_sequences (exit or janitor)
    last,            \* what the most recent run of the detection loop saw and emitted
    solo,            \* per session: a detector that is fed that session's frames only,
                     \* and the events it emits
    environ,         \* os.environ of the detector's process: the variables that are set
    store,           \* the Violation Store: whether it answers, and the POSTs it accepted
    posted,          \* the most recent POST /analyze: its JSON body and the reply's status
    reader,          \* the frame reader's handling of its latest frame, and the ROI list
                     \* it fetched last
    workers,         \* ViolationDetector.workers: the WorkerTracker of each worker id
    usage            \* the most recent rich-evidence evaluation of a hand and a scooper

vars == <<detector, tasks, now, frame_count, last_request, analyses,
          events, opened, closed, last, solo, environ, store, posted, reader,
          workers, usage>>

----------------------------------------------------------------------------
(* Program constants *)

SCOOPER_ACTIVE_MAX_PX == 50
SCOOPER_NEARBY_MAX_PX == 100
HAND_WORKER_ASSOC_MAX_PX == 150
WORK_SESSION_COOLDOWN_SEC == 30
SEQUENCE_STALENESS_SEC == 30
TIMESTAMP_MAX_AGE_SEC == 60
MAX_COMPLETED_SEQUENCES == 50
STORE_TIMEOUT_SEC == 10
INF == 999999999

(* Bounds of the model *)

MaxAnalyses == 3       \* runs of the detection loop (new frames and resubmissions)
ScenarioFrames == 10   \* frames of the single-hand scenario
HistoryFrames == 110   \* frames of the scenario that fills the completed history

Tasks == {1, 2}
Sessions == {"A", "B"}
Delays == {2, 31}           \* seconds between a request and the step before it
ScenarioDelays == {1, 2, 3}  \* the same, for the consecutive frames of a scenario

\* The fields pydantic declares for ViolationEvent; reading any other
\* attribute of an instance raises AttributeError.
ViolationEventFields ==
    {"violation_id", "frame_id", "timestamp", "violation_type", "description",
     "confidence", "evidence", "worker_id", "roi_name", "severity",
     "movement_pattern", "movement_confidence"}

----------------------------------------------------------------------------
(* Inputs: detections and ROIs of a frame *)

Pt(px, py) == [x |-> px, y |-> py]

HandIn == Pt(520, 420)
HandIn2 == Pt(600, 500)
HandOut == Pt(100, 100)
HandOut2 == Pt(120, 100)
ScooperNear == Pt(530, 430)
PersonNear == Pt(540, 440)

\* Scoopers at 30, 50, 51, about 57, 100 and 101 px from HandIn.
Scooper30 == Pt(550, 420)
Scooper50 == Pt(570, 420)
Scooper51 == Pt(571, 420)
Scooper57 == Pt(560, 460)
Scooper100 == Pt(620, 420)
Scooper101 == Pt(621, 420)

PrepRoi ==
    [name |-> "prep", shape |-> "rectangle", requires_scooper |-> TRUE,
     x |-> 500, y |-> 400, width |-> 200, height |-> 200]

HandLists == {<<>>, <<HandIn>>, <<HandOut>>, <<HandIn, HandIn2>>, <<HandOut, HandIn>>}
ScooperLists == {<<>>, <<ScooperNear>>}
RoiLists == {<<PrepRoi>>}

\* The detections and ROIs of an AnalysisRequest.
FrameContents ==
    [hands : HandLists, persons : {<<>>}, scoopers : ScooperLists, rois : RoiLists]

----------------------------------------------------------------------------
(* Geometry and the simple scooper-usage classifier *)

\* _calculate_distance, squared.
calculate_distance(pos1, pos2) ==
    (pos1.x - pos2.x) * (pos1.x - pos2.x) + (pos1.y - pos2.y) * (pos1.y - pos2.y)

RECURSIVE closest_from(_, _, _, _)
closest_from(hand, scoopers, k, closest) ==
    IF k > Len(scoopers) THEN closest
    ELSE LET distance == calculate_distance(hand, scoopers[k])
         IN closest_from(hand, scoopers, k + 1,
                         IF distance < closest THEN distance ELSE closest)

get_closest_scooper_distance(hand, scoopers) ==
    IF scoopers = <<>> THEN INF ELSE closest_from(hand, scoopers, 1, INF)

\* Mutant: the nearby tier counts as use whatever the environment says.
is_hand_using_scooper_simple_lenient(hand, scoopers, allow_nearby) ==
    IF scoopers = <<>> THEN FALSE
    ELSE closest_from(hand, scoopers, 1, INF) <= SCOOPER_NEARBY_MAX_PX * SCOOPER_NEARBY_MAX_PX

is_hand_using_scooper_simple(hand, scoopers, allow_nearby) ==
    IF scoopers = <<>> THEN FALSE
    ELSE LET closest_distance == closest_from(hand, scoopers, 1, INF)
         IN IF closest_distance <= SCOOPER_ACTIVE_MAX_PX * SCOOPER_ACTIVE_MAX_PX THEN TRUE
            ELSE IF closest_distance <= SCOOPER_NEARBY_MAX_PX * SCOOPER_NEARBY_MAX_PX
                 THEN allow_nearby
                 ELSE FALSE

\* None, in an Optional[float] field of an ROI (pixel coordinates are not negative).
None == -1

Abs(a) == IF a < 0 THEN -a ELSE a

Min2(a, b) == IF a < b THEN a ELSE b

Max2(a, b) == IF a > b THEN a ELSE b

\* One turn of the loop of _point_in_polygon: whether the edge from p1 to p2
\* flips `inside`.  Under the two conditions on y the edge is not horizontal,
\* so xinters = (y - p1y) * (p2x - p1x) / (p2y - p1y) + p1x is defined, and
\* x <= xinters is compared after multiplying by p2y - p1y (the coordinates
\* are integers, for which the float quotient decides the comparison exactly).
edge_flips(x, y, p1, p2) ==
    /\ y > Min2(p1.y, p2.y)
    /\ y <= Max2(p1.y, p2.y)
    /\ x <= Max2(p1.x, p2.x)
    /\ \/ p1.x = p2.x
       \/ IF p2.y - p1.y > 0
          THEN (x - p1.x) * (p2.y - p1.y) <= (y - p1.y) * (p2.x - p1.x)
          ELSE (x - p1.x) * (p2.y - p1.y) >= (y - p1.y) * (p2.x - p1.x)

\* The loop of _point_in_polygon from turn i on: p1 = points[i - 1] and
\* p2 = points[i % n] of the code are points[i] and points[(i % n) + 1] here.
RECURSIVE ray_casting_from(_, _, _, _, _)
ray_casting_from(x, y, points, i, inside) ==
    IF i > Len(points) THEN inside
    ELSE ray_casting_from(x, y, points, i + 1,
                          IF edge_flips(x, y, points[i], points[(i % Len(points)) + 1])
                          THEN ~inside ELSE inside)

\* Mutant: a point is inside as soon as the ray meets the first edge.
point_in_polygon_first_edge(x, y, points) ==
    IF points = <<>> THEN FALSE
    ELSE edge_flips(x, y, points[1], points[(1 % Len(points)) + 1])

\* _point_in_polygon; on an empty list points[0] raises, which yields False.
point_in_polygon(x, y, points) ==
    IF points = <<>> THEN FALSE
    ELSE ray_casting_from(x, y, points, 1, FALSE)

\* _is_in_roi on the center of a detection (whose bbox is not empty).
is_in_roi(hand, roi) ==
    IF roi.shape = "rectangle" /\ roi.x # None /\ roi.y # None
    THEN /\ roi.x <= hand.x
         /\ hand.x <= roi.x + (IF roi.width = None THEN 0 ELSE roi.width)
         /\ roi.y <= hand.y
         /\ hand.y <= roi.y + (IF roi.height = None THEN 0 ELSE roi.height)
    ELSE IF roi.shape = "polygon" /\ roi.points # <<>>
         THEN point_in_polygon(hand.x, hand.y, roi.points)
         ELSE FALSE

\* For each hand the 1-based index of the closest person strictly within
\* 150 px, 0 when there is none.
RECURSIVE closest_worker_from(_, _, _, _, _)
closest_worker_from(hand, persons, k, min_distance, closest_worker) ==
    IF k > Len(persons) THEN closest_worker
    ELSE LET distance == calculate_distance(hand, persons[k])
             take == /\ distance < min_distance
                     /\ distance < HAND_WORKER_ASSOC_MAX_PX * HAND_WORKER_ASSOC_MAX_PX
         IN closest_worker_from(hand, persons, k + 1,
                                IF take THEN distance ELSE min_distance,
                                IF take THEN k ELSE closest_worker)

associate_hands_with_workers(hands, persons) ==
    [h \in 1..Len(hands) |-> closest_worker_from(hands[h], persons, 1, INF, 0)]

----------------------------------------------------------------------------
(* The detector's state and its sequence, dedup and cooldown operations.   *)
(* Each operation takes the detector D and returns the detector after it.  *)

\* ViolationDetector.__init__
NewDetector ==
    [active_sequences |-> <<>>,
     completed_sequences |-> <<>>,
     sequence_counter |-> 0,
     sequence_violations |-> <<>>,
     violation_timestamps |-> <<>>,
     violation_count |-> 0]

Without(f, k) == [j \in DOMAIN f \ {k} |-> f[j]]

hand_id_of(i, associated_worker) ==
    IF associated_worker # 0
    THEN "hand_" \o ToString(i) \o "_worker_" \o ToString(associated_worker)
    ELSE "hand_" \o ToString(i)

\* Mutant: the key names the ROI only, not the hand.
sequence_key_of_roi_only(hand_id, roi_name) == "hand_" \o roi_name

sequence_key_of(hand_id, roi_name) == hand_id \o "_" \o roi_name

\* ROISequence(...) followed by __post_init__
ROISequence(sequence_id, hand_id, roi_name, worker_id, entry_frame, t) ==
    [sequence_id |-> sequence_id, hand_id |-> hand_id, roi_name |-> roi_name,
     worker_id |-> worker_id, entry_frame |-> entry_frame, exit_frame |-> 0,
     entry_time |-> t, exit_time |-> -1,
     frames_in_roi |-> <<>>, positions_in_roi |-> <<>>,
     scooper_usage_frames |-> <<>>, scooper_distances |-> <<>>,
     is_active |-> TRUE, is_complete |-> FALSE]

add_frame(sequence, frame_id, position, using_scooper, scooper_distance) ==
    [sequence EXCEPT
        !.frames_in_roi = Append(@, frame_id),
        !.positions_in_roi = Append(@, position),
        !.scooper_usage_frames = Append(@, using_scooper),
        !.scooper_distances = Append(@, scooper_distance)]

complete_sequence(sequence, exit_frame, t) ==
    [sequence EXCEPT !.exit_frame = exit_frame, !.exit_time = t,
                     !.is_active = FALSE, !.is_complete = TRUE]

\* Mutant: a new sequence is built but never stored in active_sequences.
update_roi_sequence_no_register(D, hand_id, roi_name, frame_id, hand_position, using_scooper, scooper_distance, worker_id, t) ==
    LET sequence_key == hand_id \o "_" \o roi_name
    IN IF sequence_key \in DOMAIN D.active_sequences
       THEN [D EXCEPT !.active_sequences[sequence_key] =
                        add_frame(@, frame_id, hand_position, using_scooper, scooper_distance)]
       ELSE [D EXCEPT !.sequence_counter = @ + 1]

update_roi_sequence(D, hand_id, roi_name, frame_id, hand_position, using_scooper, scooper_distance, worker_id, t) ==
    LET sequence_key == sequence_key_of(hand_id, roi_name)
    IN IF sequence_key \in DOMAIN D.active_sequences
       THEN [D EXCEPT !.active_sequences[sequence_key] =
                        add_frame(@, frame_id, hand_position, using_scooper, scooper_distance)]
       ELSE LET sequence == ROISequence(D.sequence_counter + 1, hand_id, roi_name,
                                        worker_id, frame_id, t)
            IN [D EXCEPT
                  !.sequence_counter = @ + 1,
                  !.active_sequences =
                      (sequence_key :> add_frame(sequence, frame_id, hand_position,
                                                 using_scooper, scooper_distance)) @@ @]

\* Mutant: the sequence of a hand that left is dropped, not completed.
check_sequence_completion_drop(D, hand_id, roi_name, frame_id, t) ==
    LET sequence_key == hand_id \o "_" \o roi_name
    IN [D EXCEPT
          !.active_sequences = [k \in DOMAIN @ \ {sequence_key} |-> @[k]],
          !.sequence_violations = [k \in DOMAIN @ \ {sequence_key} |-> @[k]],
          !.violation_timestamps = [k \in DOMAIN @ \ {sequence_key} |-> @[k]]]

check_sequence_completion(D, hand_id, roi_name, frame_id, t) ==
    LET sequence_key == sequence_key_of(hand_id, roi_name)
    IN IF sequence_key \in DOMAIN D.active_sequences
       THEN [D EXCEPT
               !.completed_sequences =
                   Append(@, complete_sequence(D.active_sequences[sequence_key], frame_id, t)),
               !.active_sequences = Without(@, sequence_key),
               !.sequence_violations = Without(@, sequence_key),
               !.violation_timestamps = Without(@, sequence_key)]
       ELSE D

\* Mutant: the entry verdict of the classifier is not consulted.
should_create_sequence_violation_any(D, hand_id, roi_name, is_using_scooper, t) ==
    LET sequence_key == hand_id \o "_" \o roi_name
    IN IF sequence_key \in DOMAIN D.sequence_violations THEN FALSE
       ELSE IF /\ sequence_key \in DOMAIN D.violation_timestamps
               /\ t - D.violation_timestamps[sequence_key] < WORK_SESSION_COOLDOWN_SEC
            THEN FALSE
            ELSE TRUE

should_create_sequence_violation(D, hand_id, roi_name, is_using_scooper, t) ==
    LET sequence_key == sequence_key_of(hand_id, roi_name)
    IN IF sequence_key \in DOMAIN D.sequence_violations THEN FALSE
       ELSE IF /\ sequence_key \in DOMAIN D.violation_timestamps
               /\ t - D.violation_timestamps[sequence_key] < WORK_SESSION_COOLDOWN_SEC
            THEN FALSE
            ELSE ~is_using_scooper

mark_sequence_as_violation(D, hand_id, roi_name, violation_id, t) ==
    LET sequence_key == sequence_key_of(hand_id, roi_name)
    IN [D EXCEPT
          !.sequence_violations = (sequence_key :> violation_id) @@ @,
          !.violation_timestamps = (sequence_key :> t) @@ @]

\* Mutant: the oldest n elements are kept.
FirstN(s, n) == IF Len(s) > n THEN SubSeq(s, 1, n) ELSE s

LastN(s, n) == IF Len(s) > n THEN SubSeq(s, Len(s) - n + 1, Len(s)) ELSE s

\* Mutant: the janitor trims the history and leaves stale sequences active.
cleanup_old_sequences_history_only(D, t) ==
    [D EXCEPT !.completed_sequences = LastN(@, MAX_COMPLETED_SEQUENCES)]

cleanup_old_sequences(D, t) ==
    LET stale_sequences ==
            {k \in DOMAIN D.active_sequences :
                t - D.active_sequences[k].entry_time > SEQUENCE_STALENESS_SEC}
    IN [D EXCEPT
          !.completed_sequences = LastN(@, MAX_COMPLETED_SEQUENCES),
          !.active_sequences = [k \in DOMAIN @ \ stale_sequences |-> @[k]]]

cleanup_old_violation_timestamps(D, t) ==
    LET stale_timestamps ==
            {k \in DOMAIN D.violation_timestamps :
                t - D.violation_timestamps[k] > TIMESTAMP_MAX_AGE_SEC}
    IN [D EXCEPT !.violation_timestamps = [k \in DOMAIN @ \ stale_timestamps |-> @[k]]]

\* _create_violation: the event, for the hand with 0-based index i.  The
\* violation id "violation_{count}_{frame_id}" is the pair <<count, frame_id>>;
\* the hand's bbox and the ROI's ingredient type are not modelled and stand
\* as fixed values in the evidence dict.  hand_index, sequence_key, n and
\* session are not fields of the event: they record for which hand and key, in
\* which run of the loop and for which session's frame it was created.
create_violation(D, i, hand, associated_worker, roi, frame_id, severity, t, n, session) ==
    [violation_id |-> <<D.violation_count + 1, frame_id>>,
     frame_id |-> frame_id,
     timestamp |-> t,
     roi_name |-> roi.name,
     severity |-> severity,
     worker_id |-> associated_worker,
     evidence |-> [hand_bbox |-> "bbox", hand_center |-> hand, roi_name |-> roi.name,
                   roi_bounds |-> [x |-> roi.x, y |-> roi.y,
                                   width |-> roi.width, height |-> roi.height],
                   ingredient_type |-> "unknown"],
     hand_index |-> i,
     sequence_key |-> sequence_key_of(hand_id_of(i, associated_worker), roi.name),
     n |-> n,
     session |-> session]

----------------------------------------------------------------------------
(* _detect_violations: the loop over hands and ROIs.  The loop state S     *)
(* holds the detector, the local list `violations` and the sequences the   *)
(* loop created.                                                           *)

\* os.getenv(name, default)
getenv(name, default) == IF name \in DOMAIN environ THEN environ[name] ELSE default

\* os.getenv("ALLOW_NEARBY_SCOOPER_FALLBACK", "true").lower() == "true"
ALLOW_NEARBY_SCOOPER_FALLBACK == getenv("ALLOW_NEARBY_SCOOPER_FALLBACK", "true") = "true"

\* Mutant: every frame of a hand in an ROI counts as an entry.
is_new_entry_always(D, sequence_key) == TRUE

is_new_entry(D, sequence_key) == sequence_key \notin DOMAIN D.active_sequences

\* The body of the loop for hand i (0-based) and one ROI.  After the event is
\* appended the code reads sequence_violation.id, which ViolationEvent does
\* not declare: the AttributeError is caught by the handler around the block,
\* so _mark_sequence_as_violation and the publication are skipped, and the
\* loop goes on with _update_roi_sequence.
check_hand_in_roi(S, i, hand, associated_worker, roi, scoopers, frame_id, t, n, session) ==
    LET D == S.det
        hand_id == hand_id_of(i, associated_worker)
        sequence_key == sequence_key_of(hand_id, roi.name)
    IN IF roi.requires_scooper /\ is_in_roi(hand, roi)
       THEN LET is_using_scooper ==
                    is_hand_using_scooper_simple(hand, scoopers, ALLOW_NEARBY_SCOOPER_FALLBACK)
                closest_scooper_distance == get_closest_scooper_distance(hand, scoopers)
                sequence_violation_needed ==
                    /\ is_new_entry(D, sequence_key)
                    /\ should_create_sequence_violation(D, hand_id, roi.name, is_using_scooper, t)
                sequence_violation ==
                    create_violation(D, i, hand, associated_worker, roi, frame_id, "high", t, n,
                                     session)
                D1 == IF sequence_violation_needed
                      THEN [D EXCEPT !.violation_count = @ + 1]
                      ELSE D
                D2 == IF sequence_violation_needed /\ "id" \in ViolationEventFields
                      THEN mark_sequence_as_violation(D1, hand_id, roi.name,
                                                      sequence_violation.violation_id, t)
                      ELSE D1
                D3 == update_roi_sequence(D2, hand_id, roi.name, frame_id, hand,
                                          is_using_scooper, closest_scooper_distance,
                                          associated_worker, t)
                created == sequence_key \in DOMAIN D3.active_sequences
                           /\ sequence_key \notin DOMAIN D2.active_sequences
            IN [det |-> D3,
                violations |-> IF sequence_violation_needed
                               THEN Append(S.violations, sequence_violation)
                               ELSE S.violations,
                created |-> IF created
                            THEN S.created \cup
                                   {[sequence_key |-> sequence_key, n |-> n,
                                     entry_frame |-> D3.active_sequences[sequence_key].entry_frame,
                                     session |-> session,
                                     using_scooper |-> is_using_scooper]}
                            ELSE S.created,
                closed |-> S.closed]
       ELSE LET D4 == check_sequence_completion(D, hand_id, roi.name, frame_id, t)
            IN [S EXCEPT
                  !.det = D4,
                  !.closed = @ \cup {[sequence_key |-> k, n |-> n, by |-> "exit"] :
                                        k \in DOMAIN D.active_sequences \ DOMAIN D4.active_sequences}]

\* Mutant: every ROI is taken to require the scooper.
RECURSIVE for_rois_all_required(_, _, _, _, _, _, _, _, _, _)
for_rois_all_required(S, i, hand, associated_worker, rois, j, scoopers, frame_id, t, ctx) ==
    IF j > Len(rois) THEN S
    ELSE for_rois_all_required(
             check_hand_in_roi(S, i, hand, associated_worker,
                               [rois[j] EXCEPT !.requires_scooper = TRUE], scoopers,
                               frame_id, t, ctx.n, ctx.session),
             i, hand, associated_worker, rois, j + 1, scoopers, frame_id, t, ctx)

RECURSIVE for_rois(_, _, _, _, _, _, _, _, _, _)
for_rois(S, i, hand, associated_worker, rois, j, scoopers, frame_id, t, ctx) ==
    IF j > Len(rois) THEN S
    ELSE for_rois(check_hand_in_roi(S, i, hand, associated_worker, rois[j], scoopers,
                                    frame_id, t, ctx.n, ctx.session),
                  i, hand, associated_worker, rois, j + 1, scoopers, frame_id, t, ctx)

\* Mutant: after the last hand, the sequences of the hand indexes that the
\* frame does not have are dropped.
RECURSIVE for_hands_drop_absent(_, _, _, _, _, _, _)
for_hands_drop_absent(S, request, hand_worker_associations, h, frame_id, t, ctx) ==
    IF h > Len(request.hands)
    THEN [S EXCEPT !.det.active_sequences =
             [k \in {k \in DOMAIN @ :
                        \E i \in 1..Len(request.hands), w \in 0..Len(request.persons) :
                            @[k].hand_id = hand_id_of(i - 1, w)} |-> @[k]]]
    ELSE for_hands_drop_absent(
             for_rois(S, h - 1, request.hands[h], hand_worker_associations[h],
                      request.rois, 1, request.scoopers, frame_id, t, ctx),
             request, hand_worker_associations, h + 1, frame_id, t, ctx)

RECURSIVE for_hands(_, _, _, _, _, _, _)
for_hands(S, request, hand_worker_associations, h, frame_id, t, ctx) ==
    IF h > Len(request.hands) THEN S
    ELSE for_hands(for_rois(S, h - 1, request.hands[h], hand_worker_associations[h],
                            request.rois, 1, request.scoopers, frame_id, t, ctx),
                   request, hand_worker_associations, h + 1, frame_id, t, ctx)

\* The loop of _detect_violations on detector D, up to the store write.
detect_violations(D, request, t, ctx) ==
    for_hands([det |-> D, violations |-> <<>>, created |-> {}, closed |-> {}],
              request, associate_hands_with_workers(request.hands, request.persons),
              1, request.frame_id, t, ctx)

\* The two janitors that end _detect_violations.
cleanup(D, t) == cleanup_old_violation_timestamps(cleanup_old_sequences(D, t), t)

Range(s) == {s[k] : k \in DOMAIN s}

\* The sequences the janitors remove from D's active_sequences, after loop run n.
ForceClosed(D, t, n) ==
    {[sequence_key |-> k, n |-> n, by |-> "janitor"] :
        k \in DOMAIN D.active_sequences \ DOMAIN cleanup(D, t).active_sequences}

----------------------------------------------------------------------------------------------------------------------------------------
(* Actions *)

IdleTask == [pc |-> "idle", violations |-> <<>>, started |-> 0]

NoRequest == [frame_id |-> 0, hands |-> <<>>, persons |-> <<>>, scoopers |-> <<>>,
              rois |-> <<>>]

\* The Violation Store: it answers, and has accepted no POST yet.  posts maps
\* a violation id to the number of POST /violations accepted for it.
NewStore == [up |-> TRUE, posts |-> <<>>]

\* No POST /analyze yet (status 0).
NoPost == [body |-> [frame_id |-> 0, detections |-> <<>>, rois |-> <<>>], status |-> 0]

\* The frame reader has processed no frame and fetched no ROI list yet.
NoFrame ==
    [frame_id |-> 0, detector_ok |-> TRUE, detections |-> <<>>, rois_ok |-> TRUE,
     roi_zones |-> <<>>, sent |-> FALSE, fetched |-> <<>>, fetched_at |-> -1]

\* _save_violations_to_database: one POST per violation, in order.  A store
\* that answers accepts each; from a store that does not, a POST comes back
\* with an error status or raises, which is logged, and nothing is kept for
\* another attempt.
RECURSIVE save_violations_to_database(_, _, _)
save_violations_to_database(S, violations, k) ==
    IF k > Len(violations) THEN S
    ELSE LET id == violations[k].violation_id
             accepted == IF id \in DOMAIN S.posts THEN S.posts[id] ELSE 0
         IN save_violations_to_database(
                IF S.up THEN [S EXCEPT !.posts = (id :> accepted + 1) @@ @] ELSE S,
                violations, k + 1)

Box(x, y, width, height) == [x |-> x, y |-> y, width |-> width, height |-> height]

\* A detection of the rich mode: its bounding box and its center.
BoxDetection(bbox, center) == [bbox |-> bbox, center |-> center]

\* No pair has been evaluated.
NoUsage == [hand |-> BoxDetection(Box(0, 0, 0, 0), Pt(0, 0)),
            scooper |-> BoxDetection(Box(0, 0, 0, 0), Pt(0, 0)),
            evaluated |-> FALSE, spatial_score |-> 0]

Init ==
    /\ detector = NewDetector
    /\ tasks = [t \in Tasks |-> IdleTask]
    /\ now = 0
    /\ frame_count = 0
    /\ last_request = NoRequest
    /\ analyses = 0
    /\ events = {}
    /\ opened = {}
    /\ closed = {}
    /\ last = [n |-> 0, request |-> NoRequest, repeat |-> FALSE, session |-> "A",
               emitted |-> {}, active_before |-> {}, registered_before |-> {}]
    /\ solo = [s \in Sessions |-> [det |-> NewDetector, events |-> {}]]
    /\ environ = <<>>
    /\ store = NewStore
    /\ posted = NoPost
    /\ reader = NoFrame
    /\ workers = <<>>
    /\ usage = NoUsage

\* Task t serves an /analyze request that arrives d seconds after the step
\* before it: the loop runs without suspension; with violations found the
\* handler then awaits the store write, otherwise it runs the janitors and
\* returns.  A store write lasts no longer than the client's timeout.
Analyze(t, session, request, repeat, d, max_analyses) ==
    LET n == analyses + 1
        S == detect_violations(detector, request, now + d, [n |-> n, session |-> session])
    IN /\ tasks[t].pc = "idle"
       /\ analyses < max_analyses
       /\ \A u \in Tasks :
              tasks[u].pc = "save" => now + d - tasks[u].started <= STORE_TIMEOUT_SEC
       /\ now' = now + d
       /\ analyses' = n
       /\ UNCHANGED <<environ, workers, usage, store>>
       /\ events' = events \cup Range(S.violations)
       /\ opened' = opened \cup S.created
       /\ last' = [n |-> n, request |-> request, repeat |-> repeat, session |-> session,
                   emitted |-> Range(S.violations),
                   active_before |-> DOMAIN detector.active_sequences,
                   registered_before |-> DOMAIN detector.sequence_violations
                                           \cup DOMAIN detector.violation_timestamps]
       /\ IF S.violations # <<>>
          THEN /\ detector' = S.det
               /\ tasks' = [tasks EXCEPT ![t] = [pc |-> "save", violations |-> S.violations,
                                                 started |-> now + d]]
               /\ closed' = closed \cup S.closed
          ELSE /\ detector' = cleanup(S.det, now + d)
               /\ UNCHANGED tasks
               /\ closed' = closed \cup S.closed \cup ForceClosed(S.det, now + d, n)

\* Mutant: frames are numbered downwards.
Request_numbered_down(frame_id, c) ==
    [frame_id |-> 100 - frame_id, hands |-> c.hands, persons |-> c.persons,
     scoopers |-> c.scoopers, rois |-> c.rois]

Request(frame_id, c) ==
    [frame_id |-> frame_id, hands |-> c.hands, persons |-> c.persons,
     scoopers |-> c.scoopers, rois |-> c.rois]

\* The frame reader produces the next frame and has it analyzed.
AnalyzeFrame(t, c, d) ==
    /\ frame_count' = frame_count + 1
    /\ last_request' = Request(frame_count + 1, c)
    /\ Analyze(t, "A", Request(frame_count + 1, c), FALSE, d, MaxAnalyses)
    /\ UNCHANGED <<solo, posted, reader>>

\* The request sent last is submitted once more.
AnalyzeAgain(t, d) ==
    /\ frame_count > 0
    /\ Analyze(t, "A", last_request, last.request = last_request, d, MaxAnalyses)
    /\ UNCHANGED <<frame_count, last_request, solo, posted, reader>>

\* The store write of task t is over (saved, refused or timed out): the
\* janitors run and the handler returns.
SaveDone(t) ==
    /\ tasks[t].pc = "save"
    /\ store' = save_violations_to_database(store, tasks[t].violations, 1)
    /\ detector' = cleanup(detector, now)
    /\ tasks' = [tasks EXCEPT ![t] = IdleTask]
    /\ closed' = closed \cup ForceClosed(detector, now, analyses)
    /\ UNCHANGED <<now, frame_count, last_request, analyses, events, opened, last, solo,
                   environ, workers, usage, posted, reader>>

\* One request at a time: the frame reader awaits each analysis.
Next ==
    \/ \E c \in FrameContents, d \in Delays : AnalyzeFrame(1, c, d)
    \/ \E d \in Delays : AnalyzeAgain(1, d)
    \/ SaveDone(1)

Spec == Init /\ [][Next]_vars

\* Requests overlap: a second request is served while the first awaits the store.
NextConcurrent ==
    \/ \E t \in Tasks, c \in FrameContents, d \in Delays : AnalyzeFrame(t, c, d)
    \/ \E t \in Tasks, d \in Delays : AnalyzeAgain(t, d)
    \/ \E t \in Tasks : SaveDone(t)

SpecConcurrent == Init /\ [][NextConcurrent]_vars

\* Frames of two sessions reach the one detector, one request at a time.
\* Beside it, solo[session] is a detector of its own that runs the same
\* handler on the frames of that session only.
SoloStep(P, request, t, ctx) ==
    LET S == detect_violations(P.det, request, t, ctx)
    IN [det |-> cleanup(S.det, t), events |-> P.events \cup Range(S.violations)]

SessionContents == {c \in FrameContents : Len(c.hands) <= 1}

AnalyzeSession(session, c, d) ==
    /\ frame_count' = frame_count + 1
    /\ last_request' = Request(frame_count + 1, c)
    /\ Analyze(1, session, Request(frame_count + 1, c), FALSE, d, MaxAnalyses)
    /\ solo' = [solo EXCEPT ![session] =
                   SoloStep(@, Request(frame_count + 1, c), now + d,
                            [n |-> analyses + 1, session |-> session])]
    /\ UNCHANGED <<posted, reader>>

\* _save_violations_to_database_with_frames: one POST per violation to the
\* same /violations of the store, with the frame path added to the body.
save_violations_to_database_with_frames(S, violations) ==
    IF violations = <<>> THEN S ELSE save_violations_to_database(S, violations, 1)

\* analyze_frame_with_storage: the store write inside _detect_violations is
\* over; the janitors run, _detect_violations returns the violations and the
\* handler awaits the write of the same violations with their frames.
SaveDoneWithFrame(t) ==
    /\ tasks[t].pc = "save"
    /\ store' = save_violations_to_database(store, tasks[t].violations, 1)
    /\ detector' = cleanup(detector, now)
    /\ tasks' = [tasks EXCEPT ![t].pc = "save_with_frames"]
    /\ closed' = closed \cup ForceClosed(detector, now, analyses)
    /\ UNCHANGED <<now, frame_count, last_request, analyses, events, opened, last, solo,
                   environ, workers, usage, posted, reader>>

\* The write with frames is over and the handler returns.
SaveWithFramesDone(t) ==
    /\ tasks[t].pc = "save_with_frames"
    /\ store' = save_violations_to_database_with_frames(store, tasks[t].violations)
    /\ tasks' = [tasks EXCEPT ![t] = IdleTask]
    /\ UNCHANGED <<detector, now, frame_count, last_request, analyses, events, opened,
                   closed, last, solo, environ, workers, usage, posted, reader>>

NextSessions ==
    \/ \E session \in Sessions, c \in SessionContents, d \in Delays :
          AnalyzeSession(session, c, d)
    \/ SaveDoneWithFrame(1)
    \/ SaveWithFramesDone(1)

SpecSessions == Init /\ [][NextSessions]_vars

\* Scenario 1: frames 1..10 with one hand at (520, 420) inside the rectangle
\* ROI [500, 400, 200, 200] that requires a scooper, and no scooper detection.
Scenario1Content ==
    [hands |-> <<HandIn>>, persons |-> <<>>, scoopers |-> <<>>, rois |-> <<PrepRoi>>]

AnalyzeScenario1(d) ==
    /\ frame_count' = frame_count + 1
    /\ last_request' = Request(frame_count + 1, Scenario1Content)
    /\ Analyze(1, "A", Request(frame_count + 1, Scenario1Content), FALSE, d, ScenarioFrames)
    /\ UNCHANGED <<solo, posted, reader>>

NextScenario1 ==
    \/ \E d \in ScenarioDelays : AnalyzeScenario1(d)
    \/ SaveDone(1)

SpecScenario1 == Init /\ [][NextScenario1]_vars

\* Frames in which a person detection comes and goes near the hand, so that
\* the hand's associated worker changes from frame to frame.
WorkerContents ==
    [hands : {<<HandIn>>, <<HandOut>>}, persons : {<<>>, <<PersonNear>>},
     scoopers : ScooperLists, rois : RoiLists]

NextWorkers ==
    \/ \E c \in WorkerContents, d \in Delays : AnalyzeFrame(1, c, d)
    \/ SaveDone(1)

SpecWorkers == Init /\ [][NextWorkers]_vars

\* The detector is started with ALLOW_NEARBY_SCOOPER_FALLBACK unset, "true"
\* or "false", and analyzes frames with scoopers at the distances that
\* separate the tiers of the classifier.
Environs ==
    {<<>>, [ALLOW_NEARBY_SCOOPER_FALLBACK |-> "true"],
     [ALLOW_NEARBY_SCOOPER_FALLBACK |-> "false"]}

ClassifierScooperLists ==
    {<<>>, <<Scooper30>>, <<Scooper50>>, <<Scooper51>>, <<Scooper57>>, <<Scooper100>>,
     <<Scooper101>>, <<Scooper101, Scooper30>>, <<Scooper30, Scooper101>>,
     <<Scooper101, Scooper57>>, <<Scooper57, Scooper101>>}

ClassifierContents ==
    [hands : {<<HandIn>>}, persons : {<<>>}, scoopers : ClassifierScooperLists,
     rois : RoiLists]
        \cup {[hands |-> <<HandOut>>, persons |-> <<>>, scoopers |-> <<>>, rois |-> <<PrepRoi>>]}

InitClassifier ==
    /\ detector = NewDetector
    /\ tasks = [t \in Tasks |-> IdleTask]
    /\ now = 0
    /\ frame_count = 0
    /\ last_request = NoRequest
    /\ analyses = 0
    /\ events = {}
    /\ opened = {}
    /\ closed = {}
    /\ last = [n |-> 0, request |-> NoRequest, repeat |-> FALSE, session |-> "A",
               emitted |-> {}, active_before |-> {}, registered_before |-> {}]
    /\ solo = [s \in Sessions |-> [det |-> NewDetector, events |-> {}]]
    /\ environ \in Environs
    /\ store = NewStore
    /\ posted = NoPost
    /\ reader = NoFrame
    /\ workers = <<>>
    /\ usage = NoUsage

NextClassifier ==
    \/ \E c \in ClassifierContents : AnalyzeFrame(1, c, 2)
    \/ SaveDone(1)

SpecClassifier == InitClassifier /\ [][NextClassifier]_vars

\* Two hands work in the ROI without scooper and leave it, over and over: in
\* every odd frame both are inside, in every even frame both are outside, one
\* second between a frame and the next.
HistoryContent(frame) ==
    [hands |-> IF frame % 2 = 1 THEN <<HandIn, HandIn2>> ELSE <<HandOut, HandOut2>>,
     persons |-> <<>>, scoopers |-> <<>>, rois |-> <<PrepRoi>>]

AnalyzeHistory ==
    /\ frame_count' = frame_count + 1
    /\ last_request' = Request(frame_count + 1, HistoryContent(frame_count + 1))
    /\ Analyze(1, "A", Request(frame_count + 1, HistoryContent(frame_count + 1)), FALSE, 1,
               HistoryFrames)
    /\ UNCHANGED <<solo, posted, reader>>

NextHistory ==
    \/ AnalyzeHistory
    \/ SaveDone(1)

SpecHistory == Init /\ [][NextHistory]_vars

\* Persons at 149, 150 and 151 px from HandIn.
Person149 == Pt(669, 420)
Person150 == Pt(670, 420)
Person151 == Pt(671, 420)

\* Frames with the hand in the ROI and persons around it, nearer and
\* farther, in both orders; and a frame with the hand outside.
AssociationContents ==
    [hands : {<<HandIn>>},
     persons : {<<>>, <<Person149>>, <<Person150>>, <<Person151>>, <<PersonNear>>,
                <<Person149, PersonNear>>, <<PersonNear, Person149>>,
                <<Person151, Person150>>},
     scoopers : {<<>>}, rois : RoiLists]
        \cup {[hands |-> <<HandOut>>, persons |-> <<>>, scoopers |-> <<>>, rois |-> <<PrepRoi>>]}

NextAssociation ==
    \/ \E c \in AssociationContents : AnalyzeFrame(1, c, 2)
    \/ SaveDone(1)

SpecAssociation == Init /\ [][NextAssociation]_vars

\* The Violation Store stops answering: its POSTs come back with a 5xx
\* status or run into the client's timeout.
StoreFails ==
    /\ store.up
    /\ store' = [store EXCEPT !.up = FALSE]
    /\ UNCHANGED <<detector, tasks, now, frame_count, last_request, analyses, events, opened,
                   closed, last, solo, environ, workers, usage, posted, reader>>

\* The Violation Store answers again.
StoreRecovers ==
    /\ ~store.up
    /\ store' = [store EXCEPT !.up = TRUE]
    /\ UNCHANGED <<detector, tasks, now, frame_count, last_request, analyses, events, opened,
                   closed, last, solo, environ, workers, usage, posted, reader>>

\* Frames are analyzed while the Violation Store fails and recovers.
NextStore ==
    \/ \E c \in SessionContents, d \in Delays : AnalyzeFrame(1, c, d)
    \/ SaveDone(1)
    \/ StoreFails
    \/ StoreRecovers

SpecStore == Init /\ [][NextStore]_vars

----------------------------------------------------------------------------
(* POST /analyze on a JSON body: parsing, then the detection loop.  A JSON  *)
(* object is a record of the keys it has, a JSON list a sequence, a         *)
(* coordinate [x, y] the pair <<x, y>>.                                     *)

MaxFrames == 3         \* frames posted or read, analyzed or not

\* dict.get(key, default)
get(data, key, default) == IF key \in DOMAIN data THEN data[key] ELSE default

\* str.lower(), on the class names that occur.
lower(name) ==
    CASE name = "Hand" -> "hand"
      [] name = "Person" -> "person"
      [] name = "Scooper" -> "scooper"
      [] OTHER -> name

\* The keys _parse_detections reads with data[...].
DetectionKeys == {"class_name", "bbox", "center", "area"}

\* _parse_detections: one Detection per element; an element without one of
\* the keys raises KeyError, which ends the parsing of the whole list.
parse_detections(detection_data) ==
    IF \E k \in DOMAIN detection_data : ~(DetectionKeys \subseteq DOMAIN detection_data[k])
    THEN [raised |-> TRUE, value |-> <<>>]
    ELSE [raised |-> FALSE,
          value |-> [k \in DOMAIN detection_data |->
                       [class_name |-> detection_data[k].class_name,
                        confidence |-> get(detection_data[k], "confidence", 0),
                        bbox |-> detection_data[k].bbox,
                        center |-> detection_data[k].center,
                        area |-> detection_data[k].area]]]

MinOf(S) == CHOOSE m \in S : \A n \in S : m <= n

MaxOf(S) == CHOOSE m \in S : \A n \in S : m >= n

\* _parse_rois, for one element with a name: a coordinates list of four or
\* more corners is turned into its bounding box and into points; a shorter
\* one is not read at all.
parse_roi(data) ==
    LET coordinates == get(data, "coordinates", <<>>)
        converted == coordinates # <<>> /\ Len(coordinates) >= 4
        x_coords == {coordinates[k][1] : k \in DOMAIN coordinates}
        y_coords == {coordinates[k][2] : k \in DOMAIN coordinates}
        x == IF converted THEN MinOf(x_coords) ELSE None
        y == IF converted THEN MinOf(y_coords) ELSE None
        width == IF converted THEN MaxOf(x_coords) - x ELSE None
        height == IF converted THEN MaxOf(y_coords) - y ELSE None
        points == IF converted
                  THEN [k \in DOMAIN coordinates |-> Pt(coordinates[k][1], coordinates[k][2])]
                  ELSE get(data, "points", <<>>)
    IN [name |-> data.name,
        shape |-> get(data, "shape", "rectangle"),
        ingredient_type |-> get(data, "ingredient_type", "unknown"),
        requires_scooper |-> get(data, "requires_scooper", TRUE),
        x |-> get(data, "x", x),
        y |-> get(data, "y", y),
        width |-> get(data, "width", width),
        height |-> get(data, "height", height),
        points |-> points]

\* _parse_rois: an element without "name" raises KeyError.
parse_rois(roi_data) ==
    IF \E k \in DOMAIN roi_data : "name" \notin DOMAIN roi_data[k]
    THEN [raised |-> TRUE, value |-> <<>>]
    ELSE [raised |-> FALSE, value |-> [k \in DOMAIN roi_data |-> parse_roi(roi_data[k])]]

\* The centers of the detections whose class, in lower case, is one of names.
by_class(detections, names) ==
    LET of_class(d) == lower(d.class_name) \in names
        selected == SelectSeq(detections, of_class)
    IN [k \in DOMAIN selected |-> selected[k].center]

\* The detections by type, as _detect_violations sorts them, and the ROIs.
request_of(frame_id, detections, rois) ==
    [frame_id |-> frame_id,
     hands |-> by_class(detections, {"hand", "hands"}),
     persons |-> by_class(detections, {"person", "people"}),
     scoopers |-> by_class(detections, {"scooper", "scoopers", "spoon", "utensil"}),
     rois |-> rois]

\* ViolationDetector.analyze_frame, for task t, on a body that arrives d
\* seconds after the step before it.  An exception of the parsers is turned
\* into HTTP 500 before anything of the frame has reached the detector.
analyze_frame(t, session, body, d) ==
    LET detections == parse_detections(body.detections)
        rois == parse_rois(body.rois)
    IN IF detections.raised \/ rois.raised
       THEN /\ tasks[t].pc = "idle"
            /\ now' = now + d
            /\ posted' = [body |-> body, status |-> 500]
            /\ UNCHANGED <<detector, tasks, analyses, events, opened, closed, last, environ, workers, usage,
                           store>>
       ELSE /\ Analyze(t, session, request_of(body.frame_id, detections.value, rois.value),
                       FALSE, d, MaxFrames)
            /\ posted' = [body |-> body, status |-> 200]

\* A client posts the detections and ROIs of its next frame to /analyze.
PostAnalyze(t, content, d) ==
    /\ frame_count < MaxFrames
    /\ frame_count' = frame_count + 1
    /\ analyze_frame(t, "A", [frame_id |-> frame_count + 1,
                              detections |-> content.detections, rois |-> content.rois], d)
    /\ UNCHANGED <<last_request, solo, reader>>

\* A detection as the detection service returns it.
Detection(class_name, center) ==
    [class_name |-> class_name, confidence |-> 1, bbox |-> "bbox", center |-> center,
     area |-> 1]

\* Detections as a client can post them: a hand without "center", a hand
\* without "bbox", and a detection of a class the detector does not know.
NoCenter == [class_name |-> "hand", confidence |-> 1, bbox |-> "bbox", area |-> 1]

NoBbox == [class_name |-> "hand", confidence |-> 1, center |-> HandIn2, area |-> 1]

UnknownClass == [class_name |-> "pizza", confidence |-> 1, bbox |-> "bbox", center |-> HandIn2, area |-> 1]

\* PrepRoi as the JSON object that is parsed into it.
RectRoi(name) ==
    [name |-> name, shape |-> "rectangle", requires_scooper |-> TRUE,
     x |-> 500, y |-> 400, width |-> 200, height |-> 200]

\* A polygon ROI given by its points.
PointsRoi(name, points) == [name |-> name, shape |-> "polygon", points |-> points]

\* A polygon ROI given by its corners, as coordinates.
CoordinatesRoi(name, coordinates) ==
    [name |-> name, shape |-> "polygon", coordinates |-> coordinates]

\* Bodies with well-formed detections only, and bodies in which a malformed
\* or unknown detection, or a polygon of two points, comes with them.
ParseContents ==
    [detections : {<<Detection("hand", HandIn)>>,
                   <<Detection("hand", HandOut)>>,
                   <<NoCenter, Detection("hand", HandIn)>>,
                   <<Detection("hand", HandIn), NoBbox>>,
                   <<UnknownClass, Detection("hand", HandIn)>>},
     rois : {<<RectRoi("prep")>>,
             <<PointsRoi("line", <<Pt(500, 400), Pt(700, 600)>>), RectRoi("prep")>>}]

NextParse ==
    \/ \E content \in ParseContents : PostAnalyze(1, content, 2)
    \/ SaveDone(1)

SpecParse == Init /\ [][NextParse]_vars

\* The rectangle [500, 400, 200, 200], the same as a polygon of its four
\* corners, a triangle and a diamond inside its bounds (by coordinates, the
\* triangle also by points), and polygons of two, one and no point.
ShapeRois ==
    <<RectRoi("rect"),
      CoordinatesRoi("poly", <<(<<500, 400>>), (<<700, 400>>), (<<700, 600>>), (<<500, 600>>)>>),
      CoordinatesRoi("tri", <<(<<500, 400>>), (<<700, 400>>), (<<600, 600>>)>>),
      PointsRoi("tri_points", <<Pt(500, 400), Pt(700, 400), Pt(600, 600)>>),
      CoordinatesRoi("diamond", <<(<<600, 400>>), (<<700, 500>>), (<<600, 600>>), (<<500, 500>>)>>),
      PointsRoi("two", <<Pt(500, 400), Pt(700, 600)>>),
      CoordinatesRoi("two_coords", <<(<<500, 400>>), (<<700, 600>>)>>),
      PointsRoi("one", <<Pt(600, 500)>>),
      PointsRoi("none", <<>>)>>

\* Hand centers: the middle of the rectangle, the middles of its four edges,
\* two corners, a point of the rectangle outside the triangle and the
\* diamond, and a point outside everything.
ShapePoints ==
    {Pt(600, 500), Pt(500, 500), Pt(600, 400), Pt(700, 500), Pt(600, 600),
     Pt(500, 400), Pt(700, 600), Pt(520, 580), HandOut}

NextShapes ==
    \/ \E center \in ShapePoints :
          PostAnalyze(1, [detections |-> <<Detection("hand", center)>>, rois |-> ShapeRois], 2)
    \/ SaveDone(1)

SpecShapes == Init /\ [][NextShapes]_vars

----------------------------------------------------------------------------
(* The frame reader: for each frame it calls the detection service, fetches *)
(* the ROI zones and has the frame analyzed.                                *)

\* A detection of _get_mock_detections: class, confidence and bbox only.
MockDetection(class_name) == [class_name |-> class_name, confidence |-> 1, bbox |-> "bbox"]

\* _get_mock_detections: a hand, a scooper and a person, each drawn or not
\* at random, in this order.
MockDetectionLists ==
    {(IF h THEN <<MockDetection("hand")>> ELSE <<>>)
        \o (IF s THEN <<MockDetection("scooper")>> ELSE <<>>)
        \o (IF p THEN <<MockDetection("person")>> ELSE <<>>) :
      h \in BOOLEAN, s \in BOOLEAN, p \in BOOLEAN}

\* What the call of the detection service comes to: a reply with status 200
\* and its detections, or a failure (another status, a timeout, no connection).
DetectionReplies ==
    {[ok |-> TRUE, detections |-> ds] :
        ds \in {<<>>, <<Detection("hand", HandIn)>>, <<Detection("hand", HandOut)>>}}
      \cup {[ok |-> FALSE, detections |-> <<>>]}

\* An ROI as the ROI manager returns it: the corners of [500, 400, 200, 200].
ManagerRoi ==
    [id |-> "roi-1", name |-> "prep", type |-> "rectangle",
     coordinates |-> <<(<<500, 400>>), (<<700, 400>>), (<<700, 600>>), (<<500, 600>>)>>]

\* What the fetch of the ROI zones comes to, in the same way.
RoiReplies ==
    {[ok |-> TRUE, rois |-> <<ManagerRoi>>], [ok |-> TRUE, rois |-> <<>>],
     [ok |-> FALSE, rois |-> <<>>]}

\* _call_detection_service
call_detection_service(reply) == IF reply.ok THEN reply.detections ELSE <<>>

\* _fetch_roi_zones
fetch_roi_zones(reply) == IF reply.ok THEN reply.rois ELSE <<>>

\* _send_frame_to_websocket up to the analysis, for the frame read d seconds
\* after the step before it: an empty result of the detection call is
\* replaced by mock detections; the frame is sent to /analyze when the fetch
\* gave ROI zones.  reader.fetched and reader.fetched_at record the last ROI
\* list a fetch returned and when; the reader itself keeps neither.
send_frame_to_websocket(t, detection_reply, mock, roi_reply, d) ==
    LET called == call_detection_service(detection_reply)
        detections == IF called = <<>> THEN mock ELSE called
        roi_zones == fetch_roi_zones(roi_reply)
    IN /\ frame_count < MaxFrames
       /\ frame_count' = frame_count + 1
       /\ reader' = [frame_id |-> frame_count + 1,
                     detector_ok |-> detection_reply.ok,
                     detections |-> detections,
                     rois_ok |-> roi_reply.ok,
                     roi_zones |-> roi_zones,
                     sent |-> roi_zones # <<>>,
                     fetched |-> IF roi_reply.ok THEN roi_reply.rois ELSE reader.fetched,
                     fetched_at |-> IF roi_reply.ok THEN now + d ELSE reader.fetched_at]
       /\ IF roi_zones # <<>>
          THEN analyze_frame(t, "A", [frame_id |-> frame_count + 1,
                                     detections |-> detections, rois |-> roi_zones], d)
          ELSE /\ tasks[t].pc = "idle"
               /\ now' = now + d
               /\ UNCHANGED <<detector, tasks, analyses, events, opened, closed, last,
                              environ, workers, usage, store, posted>>
       /\ UNCHANGED <<last_request, solo>>

NextReader ==
    \/ \E detection_reply \in DetectionReplies, roi_reply \in RoiReplies, d \in Delays :
          \E mock \in IF call_detection_service(detection_reply) = <<>>
                       THEN MockDetectionLists ELSE {<<>>} :
              send_frame_to_websocket(1, detection_reply, mock, roi_reply, d)
    \/ SaveDone(1)

SpecReader == Init /\ [][NextReader]_vars

----------------------------------------------------------------------------
(* Rich-evidence mode: the spatial relationship of a hand and a scooper.    *)
(* Scores are counted in 1/Unit, so that 1.0 is Unit; a quotient that is    *)
(* not a whole number of units is rounded down.                             *)

Unit == 60 * 100

\* n ** 0.5 of a perfect square.
sqrt(n) == CHOOSE r \in 0..n : r * r = n

\* Intersection over union of two boxes.
calculate_bbox_overlap(bbox1, bbox2) ==
    LET x1 == get(bbox1, "x", 0)
        y1 == get(bbox1, "y", 0)
        w1 == get(bbox1, "width", 0)
        h1 == get(bbox1, "height", 0)
        x2 == get(bbox2, "x", 0)
        y2 == get(bbox2, "y", 0)
        w2 == get(bbox2, "width", 0)
        h2 == get(bbox2, "height", 0)
        x_left == Max2(x1, x2)
        y_top == Max2(y1, y2)
        x_right == Min2(x1 + w1, x2 + w2)
        y_bottom == Min2(y1 + h1, y2 + h2)
        intersection_area == (x_right - x_left) * (y_bottom - y_top)
        union_area == w1 * h1 + w2 * h2 - intersection_area
    IN IF x_right < x_left \/ y_bottom < y_top THEN 0
       ELSE IF union_area = 0 THEN 0
       ELSE (intersection_area * Unit) \div union_area

\* 1 - min(angle, pi - angle) / (pi / 2) for angle = |atan2(dy, dx)|, on the
\* vectors that lie along an axis: the angle is 0 or pi along x, pi/2 along y.
angle_score(dx, dy) ==
    CASE dy = 0 -> Unit
      [] dx = 0 /\ dy # 0 -> 0

\* The method has the parameters (hand_center, scooper_center): a call with
\* any other number of arguments raises TypeError.
analyze_hand_scooper_position(args) ==
    IF Len(args) # 2 THEN [raised |-> TRUE, value |-> 0]
    ELSE LET dx == get(args[2], "x", 0) - get(args[1], "x", 0)
             dy == get(args[2], "y", 0) - get(args[1], "y", 0)
             distance == sqrt(dx * dx + dy * dy)
             distance_score == Max2(0, Unit - (distance * Unit) \div 60)
         IN [raised |-> FALSE,
             value |-> IF distance = 0 THEN Unit
                       ELSE (angle_score(dx, dy) * 6 + distance_score * 4) \div 10]

analyze_hand_scooper_size_relationship(hand_bbox, scooper_bbox) ==
    LET hand_area == get(hand_bbox, "width", 0) * get(hand_bbox, "height", 0)
        scooper_area == get(scooper_bbox, "width", 0) * get(scooper_bbox, "height", 0)
    IN IF hand_area = 0 \/ scooper_area = 0 THEN 0
       ELSE IF 20 * hand_area <= 100 * scooper_area /\ 100 * scooper_area <= 80 * hand_area
            THEN Unit
       ELSE IF 10 * hand_area <= 100 * scooper_area /\ 100 * scooper_area <= 120 * hand_area
            THEN (7 * Unit) \div 10
       ELSE IF 5 * hand_area <= 100 * scooper_area /\ 100 * scooper_area <= 200 * hand_area
            THEN (4 * Unit) \div 10
       ELSE 0

\* The position is asked for with four arguments; whatever is raised inside
\* the try block makes the result 0.0.
analyze_hand_scooper_spatial_relationship(hand, scooper) ==
    LET overlap_score == calculate_bbox_overlap(hand.bbox, scooper.bbox)
        position == analyze_hand_scooper_position(
                        <<hand.center, scooper.center, hand.bbox, scooper.bbox>>)
        size_score == analyze_hand_scooper_size_relationship(hand.bbox, scooper.bbox)
        spatial_score == (overlap_score * 5 + position.value * 3 + size_score * 2) \div 10
    IN IF position.raised THEN 0
       ELSE Min2(Unit, Max2(0, spatial_score))

HandBoxes == {Box(500, 400, 100, 100), Box(480, 380, 100, 200), Box(0, 0, 0, 0)}

ScooperBoxes ==
    {Box(550, 450, 50, 50), Box(500, 400, 100, 100), Box(500, 400, 150, 100),
     Box(600, 500, 30, 30), Box(700, 700, 10, 10), Box(0, 0, 0, 0)}

HandCenters == {Pt(550, 450)}

ScooperCenters == {Pt(550, 450), Pt(580, 450), Pt(520, 450), Pt(550, 490), Pt(650, 450)}

\* A hand and a scooper are about to be evaluated.
InitUsage ==
    /\ detector = NewDetector
    /\ tasks = [t \in Tasks |-> IdleTask]
    /\ now = 0
    /\ frame_count = 0
    /\ last_request = NoRequest
    /\ analyses = 0
    /\ events = {}
    /\ opened = {}
    /\ closed = {}
    /\ last = [n |-> 0, request |-> NoRequest, repeat |-> FALSE, session |-> "A",
               emitted |-> {}, active_before |-> {}, registered_before |-> {}]
    /\ solo = [s \in Sessions |-> [det |-> NewDetector, events |-> {}]]
    /\ environ = <<>>
    /\ store = NewStore
    /\ posted = NoPost
    /\ reader = NoFrame
    /\ workers = <<>>
    /\ usage \in {[hand |-> BoxDetection(hb, hc), scooper |-> BoxDetection(sb, sc),
                   evaluated |-> FALSE, spatial_score |-> 0] :
                      hb \in HandBoxes, hc \in HandCenters,
                      sb \in ScooperBoxes, sc \in ScooperCenters}

\* Stage 2 of _is_hand_actively_using_scooper.
AnalyzeSpatialRelationship ==
    /\ ~usage.evaluated
    /\ usage' = [usage EXCEPT !.evaluated = TRUE,
                              !.spatial_score = analyze_hand_scooper_spatial_relationship(
                                                    usage.hand, usage.scooper)]
    /\ UNCHANGED <<detector, tasks, now, frame_count, last_request, analyses, events, opened,
                   closed, last, solo, environ, store, posted, reader, workers>>

NextUsage == AnalyzeSpatialRelationship

SpecUsage == InitUsage /\ [][NextUsage]_vars

----------------------------------------------------------------------------
(* WorkerTracker: the action of a worker derived from its hand positions.   *)

MaxPositions == 6

WorkerTracker == [hand_positions |-> <<>>, current_action |-> "idle"]

\* Number of i in from..Len(positions) where the step before step i is longer
\* than 5 px along an axis and the two steps have a negative dot product.
RECURSIVE direction_changes_from(_, _)
direction_changes_from(positions, i) ==
    IF i > Len(positions) THEN 0
    ELSE LET dir1_x == positions[i - 1].x - positions[i - 2].x
             dir1_y == positions[i - 1].y - positions[i - 2].y
             dir2_x == positions[i].x - positions[i - 1].x
             dir2_y == positions[i].y - positions[i - 1].y
         IN (IF (Abs(dir1_x) > 5 \/ Abs(dir1_y) > 5) /\ dir1_x * dir2_x + dir1_y * dir2_y < 0
             THEN 1 ELSE 0)
            + direction_changes_from(positions, i + 1)

\* Sum of the lengths of the steps from..Len(positions).
RECURSIVE total_movement_from(_, _)
total_movement_from(positions, i) ==
    IF i > Len(positions) THEN 0
    ELSE sqrt((positions[i].x - positions[i - 1].x) * (positions[i].x - positions[i - 1].x)
              + (positions[i].y - positions[i - 1].y) * (positions[i].y - positions[i - 1].y))
         + total_movement_from(positions, i + 1)

\* avg_movement is total_movement / n for n = len(recent_positions): it is
\* compared with a threshold c as total_movement with c * n.
analyze_movement(hand_positions) ==
    LET recent_positions == LastN(hand_positions, 5)
        total_movement == total_movement_from(recent_positions, 2)
        direction_changes == direction_changes_from(recent_positions, 3)
        n == Len(recent_positions)
    IN IF Len(hand_positions) < 3 THEN "unknown"
       ELSE IF direction_changes >= 2 /\ 15 * n <= total_movement /\ total_movement <= 40 * n
            THEN "cleaning"
       ELSE IF total_movement < 8 * n THEN "idle"
       ELSE IF total_movement > 12 * n /\ direction_changes <= 1 THEN "grabbing"
       ELSE "unknown"

\* WorkerTracker.update: the first hand of the detections is appended to
\* hand_positions, which keeps the last 20, and the action is derived anew.
update(tracker, hand_detections) ==
    IF hand_detections # <<>>
    THEN LET hand_positions == LastN(Append(tracker.hand_positions, hand_detections[1]), 20)
         IN [hand_positions |-> hand_positions,
             current_action |-> analyze_movement(hand_positions)]
    ELSE tracker

TrackedHands == {Pt(100, 300), Pt(109, 300), Pt(118, 300), Pt(130, 300), Pt(160, 300)}

\* A frame shows a person with a hand: the person's tracker is created if
\* there is none, and updated.
UpdateWorker(worker_id, hand_detections) ==
    LET tracker == IF worker_id \in DOMAIN workers THEN workers[worker_id] ELSE WorkerTracker
    IN /\ Len(tracker.hand_positions) < MaxPositions
       /\ workers' = [w \in DOMAIN workers \cup {worker_id} |->
                         IF w = worker_id THEN update(tracker, hand_detections)
                         ELSE workers[w]]
       /\ UNCHANGED <<detector, tasks, now, frame_count, last_request, analyses, events,
                      opened, closed, last, solo, environ, store, posted, reader, usage>>

NextTracker == \E hand \in TrackedHands : UpdateWorker("worker_0", <<hand>>)

SpecTracker == Init /\ [][NextTracker]_vars

----------------------------------------------------------------------------
(* Frames whose ROI list changes: no ROI, the prep ROI, the prep ROI with   *)
(* the scooper not required, another ROI.                                   *)

\* The prep ROI with requires_scooper false.
OpenRoi == [PrepRoi EXCEPT !.requires_scooper = FALSE]

\* An ROI that contains HandOut.
OvenRoi == [PrepRoi EXCEPT !.name = "oven", !.x = 0, !.y = 0]

RoiContents ==
    [hands : {<<>>, <<HandIn>>, <<HandOut>>, <<HandIn, HandIn2>>},
     persons : {<<>>},
     scoopers : {<<>>},
     rois : {<<>>, <<PrepRoi>>, <<OpenRoi>>, <<OvenRoi>>}]

NextRois ==
    \/ \E c \in RoiContents, d \in Delays : AnalyzeFrame(1, c, d)
    \/ SaveDone(1)

SpecRois == Init /\ [][NextRois]_vars

----------------------------------------------------------------------------
(* Frames in which the ROI is named prep or worker_1_prep, and a person     *)
(* comes and goes near the hand.                                            *)

\* The prep rectangle under the name worker_1_prep.
WorkerPrepRoi == [PrepRoi EXCEPT !.name = "worker_1_prep"]

KeyContents ==
    [hands : {<<HandIn>>, <<HandOut>>}, persons : {<<>>, <<PersonNear>>},
     scoopers : {<<>>}, rois : {<<PrepRoi>>, <<WorkerPrepRoi>>}]

NextKeys ==
    \/ \E c \in KeyContents, d \in Delays : AnalyzeFrame(1, c, d)
    \/ SaveDone(1)

SpecKeys == Init /\ [][NextKeys]_vars

----------------------------------------------------------------------------
(* Properties *)

\* The sequence of `key` was removed from active_sequences after the loop of
\* run n1 emitted and before the loop of run n2 did.
ClosedBetween(key, n1, n2) ==
    \E c \in closed : c.sequence_key = key /\ n1 <= c.n /\ c.n < n2

\* C1: for every key, two events of that key are separated by a close of the
\* key's sequence: between one entry and the next close (exit or force-close)
\* at most one event is emitted, and frames extending a sequence emit none.
C1_OnePerSequence ==
    \A e1 \in events, e2 \in events :
        (e1 # e2 /\ e1.sequence_key = e2.sequence_key /\ e1.n <= e2.n)
            => ClosedBetween(e1.sequence_key, e1.n, e2.n)

\* An event's sequence has been extended by a later frame and is still the
\* key's only event.
C1_Witness ==
    \E e \in events :
        /\ e.sequence_key \in DOMAIN detector.active_sequences
        /\ detector.active_sequences[e.sequence_key].entry_frame = e.frame_id
        /\ Len(detector.active_sequences[e.sequence_key].frames_in_roi) >= 2
        /\ \A e2 \in events : e2.sequence_key = e.sequence_key => e2 = e

\* C2 (as claimed): two events of one key are at least
\* WORK_SESSION_COOLDOWN_SEC apart.
C2_CooldownBetweenEvents ==
    \A e1 \in events, e2 \in events :
        (e1 # e2 /\ e1.sequence_key = e2.sequence_key)
            => Abs(e1.timestamp - e2.timestamp) >= WORK_SESSION_COOLDOWN_SEC

\* C3: when a sequence opens with using_scooper true, no event is emitted for
\* its key from that entry until the sequence is closed, whatever the later
\* frames of the sequence show.
C3_ComplianceAtEntry ==
    \A o \in opened, e \in events :
        (o.using_scooper /\ o.sequence_key = e.sequence_key /\ o.n <= e.n)
            => ClosedBetween(o.sequence_key, o.n, e.n)

\* A sequence that opened with a scooper and went on without one, with no event.
C3_Witness ==
    \E k \in DOMAIN detector.active_sequences :
        LET q == detector.active_sequences[k]
        IN /\ Len(q.scooper_usage_frames) >= 2
           /\ q.scooper_usage_frames[1]
           /\ ~q.scooper_usage_frames[2]
           /\ \A e \in events : e.sequence_key # k

\* C4 (as claimed): once the loop has emitted an event, sequence_violations
\* holds the event's id under its key and violation_timestamps the emission time.
C4_RegistriesSetOnEmission ==
    \A e \in last.emitted :
        /\ e.sequence_key \in DOMAIN detector.sequence_violations
        /\ detector.sequence_violations[e.sequence_key] = e.violation_id
        /\ e.sequence_key \in DOMAIN detector.violation_timestamps
        /\ detector.violation_timestamps[e.sequence_key] = e.timestamp

\* C5: every event is emitted by the run of the loop that opens a sequence
\* for its key and carries the entry frame of that sequence; runs that only
\* extend or close sequences, and the janitors, emit nothing.
C5_EventsOnlyAtEntry ==
    \A e \in events :
        \E o \in opened :
            /\ o.sequence_key = e.sequence_key
            /\ o.n = e.n
            /\ o.entry_frame = e.frame_id

\* One event, and its sequence was extended without a scooper and then
\* closed by the hand's exit (0% scooper usage) without a further event.
C5_Witness ==
    /\ Cardinality(events) = 1
    /\ \E e \in events :
         \E k \in DOMAIN detector.completed_sequences :
            LET q == detector.completed_sequences[k]
            IN /\ q.entry_frame = e.frame_id
               /\ sequence_key_of(q.hand_id, q.roi_name) = e.sequence_key
               /\ q.is_complete
               /\ Len(q.frames_in_roi) >= 2
               /\ \A m \in DOMAIN q.scooper_usage_frames : ~q.scooper_usage_frames[m]

\* C7: two analyses in flight together never both hold an event of the same
\* key unless the key's sequence was closed between their loops: of two
\* analyses that see the same entry, at most one emits.
C7_AtomicCheckAndSet ==
    \A u \in Tasks, v \in Tasks :
        \A e1 \in Range(tasks[u].violations), e2 \in Range(tasks[v].violations) :
            (e1 # e2 /\ e1.sequence_key = e2.sequence_key /\ e1.n <= e2.n)
                => ClosedBetween(e1.sequence_key, e1.n, e2.n)

\* A second analysis saw the hand of a suspended analysis' event in the ROI,
\* without scooper, and emitted nothing.
C7_Witness ==
    \E u \in Tasks, v \in Tasks :
        /\ u # v
        /\ tasks[u].pc = "save"
        /\ tasks[v].pc = "idle"
        /\ last.emitted = {}
        /\ \E e \in Range(tasks[u].violations) :
              /\ e.n + 1 = last.n
              /\ e.sequence_key \in DOMAIN detector.active_sequences
              /\ LET q == detector.active_sequences[e.sequence_key]
                 IN /\ Len(q.frames_in_roi) = 2
                    /\ ~q.scooper_usage_frames[2]

EnteringWithoutScooper ==
    LET r == last.request
        w == associate_hands_with_workers(r.hands, r.persons)
    IN {p \in (DOMAIN r.hands) \X (DOMAIN r.rois) :
          /\ r.rois[p[2]].requires_scooper
          /\ is_in_roi(r.hands[p[1]], r.rois[p[2]])
          /\ ~is_hand_using_scooper_simple(r.hands[p[1]], r.scoopers,
                                           ALLOW_NEARBY_SCOOPER_FALLBACK)
          /\ LET key == sequence_key_of(hand_id_of(p[1] - 1, w[p[1]]), r.rois[p[2]].name)
             IN key \notin last.active_before \cup last.registered_before}

\* C10: every hand that enters a requires-scooper ROI without scooper gets
\* exactly one event of its own, with the frame's id, whatever happens to the
\* other hands of the frame; two such hands in one ROI get two events.
C10_OneEventPerEnteringHand ==
    \A p \in EnteringWithoutScooper :
        Cardinality({e \in last.emitted :
                        /\ e.evidence.hand_center = last.request.hands[p[1]]
                        /\ e.roi_name = last.request.rois[p[2]].name
                        /\ e.frame_id = last.request.frame_id}) = 1

\* Two hands in the ROI, no scooper: two events of two keys in that frame.
C10_Witness ==
    /\ last.request.hands = <<HandIn, HandIn2>>
    /\ last.request.scoopers = <<>>
    /\ Cardinality(last.emitted) = 2
    /\ Cardinality({e.sequence_key : e \in last.emitted}) = 2
    /\ \A e \in last.emitted : e.frame_id = last.request.frame_id

\* An event without the bookkeeping fields of the model.
Emitted(e) == [frame_id |-> e.frame_id, sequence_key |-> e.sequence_key,
               roi_name |-> e.roi_name, severity |-> e.severity]

\* C6 (as claimed): the events emitted for the frames of a session are those
\* a detector emits that analyzes the frames of that session alone.
C6_SessionIsolation ==
    \A session \in Sessions :
        {Emitted(e) : e \in {x \in events : x.session = session}}
            = {Emitted(e) : e \in solo[session].events}

\* C9 (as claimed): after the ten frames of scenario 1 there is exactly one
\* event; it carries the first frame's id and severity high, and its
\* evidence records closest_scooper_distance = +infinity.
C9_Scenario1 ==
    (frame_count = ScenarioFrames /\ tasks[1].pc = "idle") =>
        /\ Cardinality(events) = 1
        /\ \A e \in events :
              /\ e.frame_id = 1
              /\ e.severity = "high"
              /\ "closest_scooper_distance" \in DOMAIN e.evidence
              /\ e.evidence.closest_scooper_distance = INF

\* C11 (as claimed): a hand index that is inside an ROI in two consecutive
\* frames, analyzed within the staleness budget of each other, gets at most
\* one event for that ROI over the two frames, whatever worker it is
\* associated with in each.
C11_WorkerIndependent ==
    \A e1 \in events, e2 \in events :
        (/\ e1.hand_index = e2.hand_index
         /\ e1.roi_name = e2.roi_name
         /\ e2.timestamp - e1.timestamp <= SEQUENCE_STALENESS_SEC)
            => e2.frame_id # e1.frame_id + 1

MinDistance2(hand, scoopers) ==
    LET ds == {(hand.x - scoopers[k].x) * (hand.x - scoopers[k].x)
                 + (hand.y - scoopers[k].y) * (hand.y - scoopers[k].y) : k \in DOMAIN scoopers}
    IN CHOOSE m \in ds : \A x \in ds : m <= x

\* The verdict the tiers give: false without scoopers, true up to 50 px, the
\* setting of ALLOW_NEARBY_SCOOPER_FALLBACK (enabled unless set to another
\* value than "true") up to 100 px, false beyond.
TieredVerdict(hand, scoopers) ==
    IF scoopers = <<>> THEN FALSE
    ELSE LET d2 == MinDistance2(hand, scoopers)
         IN IF d2 <= 50 * 50 THEN TRUE
            ELSE IF d2 <= 100 * 100
                 THEN \/ "ALLOW_NEARBY_SCOOPER_FALLBACK" \notin DOMAIN environ
                      \/ environ["ALLOW_NEARBY_SCOOPER_FALLBACK"] = "true"
                 ELSE FALSE

\* C13: the using_scooper flag recorded for the hand of the frame analyzed
\* last is the verdict of the tiers on the distance to the closest scooper;
\* and a hand that enters with the only scooper about 57 px away while the
\* fallback is disabled gets one event.
C13_TieredVerdict ==
    LET r == last.request
    IN (r.hands = <<HandIn>> /\ r.rois = <<PrepRoi>>) =>
          /\ "hand_0_prep" \in DOMAIN detector.active_sequences
          /\ LET q == detector.active_sequences["hand_0_prep"]
             IN /\ q.frames_in_roi[Len(q.frames_in_roi)] = r.frame_id
                /\ q.scooper_usage_frames[Len(q.scooper_usage_frames)]
                      = TieredVerdict(HandIn, r.scoopers)
          /\ (/\ r.scoopers = <<Scooper57>>
              /\ getenv("ALLOW_NEARBY_SCOOPER_FALLBACK", "true") = "false"
              /\ "hand_0_prep" \notin last.active_before)
                => Cardinality(last.emitted) = 1

\* A hand has entered with the only scooper about 57 px away and the fallback
\* disabled, was found not using the scooper and got its event.
C13_Witness ==
    /\ last.request.hands = <<HandIn>>
    /\ last.request.scoopers = <<Scooper57>>
    /\ environ = [ALLOW_NEARBY_SCOOPER_FALLBACK |-> "false"]
    /\ "hand_0_prep" \notin last.active_before
    /\ "hand_0_prep" \in DOMAIN detector.active_sequences
    /\ detector.active_sequences["hand_0_prep"].scooper_usage_frames = <<FALSE>>
    /\ Cardinality(last.emitted) = 1

\* The (hand, ROI) pairs of the last analyzed request whose hand is inside a
\* requires-scooper ROI and whose key had no active sequence before.
Entering ==
    LET r == last.request
        w == associate_hands_with_workers(r.hands, r.persons)
    IN {p \in (DOMAIN r.hands) \X (DOMAIN r.rois) :
          /\ r.rois[p[2]].requires_scooper
          /\ is_in_roi(r.hands[p[1]], r.rois[p[2]])
          /\ sequence_key_of(hand_id_of(p[1] - 1, w[p[1]]), r.rois[p[2]].name)
                \notin last.active_before}

\* C14: after a frame in which a hand is inside a requires-scooper ROI and
\* its key had no active sequence, the key has one active sequence, whose
\* entry_frame is that frame and which holds one observation: the frame, the
\* hand's position, the using_scooper flag and the closest scooper distance.
C14_OpenOnEntry ==
    LET r == last.request
        w == associate_hands_with_workers(r.hands, r.persons)
    IN \A p \in Entering :
          LET hand_id == hand_id_of(p[1] - 1, w[p[1]])
              key == hand_id \o "_" \o r.rois[p[2]].name
          IN /\ key \in DOMAIN detector.active_sequences
             /\ Cardinality({k \in DOMAIN detector.active_sequences :
                                /\ detector.active_sequences[k].hand_id = hand_id
                                /\ detector.active_sequences[k].roi_name = r.rois[p[2]].name}) = 1
             /\ LET q == detector.active_sequences[key]
                IN /\ q.entry_frame = r.frame_id
                   /\ q.is_active /\ ~q.is_complete
                   /\ q.frames_in_roi = <<r.frame_id>>
                   /\ q.positions_in_roi = <<r.hands[p[1]]>>
                   /\ Len(q.scooper_usage_frames) = 1
                   /\ q.scooper_usage_frames[1] = (r.scoopers # <<>>
                         /\ MinDistance2(r.hands[p[1]], r.scoopers) <= 100 * 100)
                   /\ q.scooper_distances
                         = <<IF r.scoopers = <<>> THEN INF
                             ELSE MinDistance2(r.hands[p[1]], r.scoopers)>>

\* A hand has entered beside a hand whose sequence goes on: the frame opened
\* one sequence and extended another.
C14_Witness ==
    /\ Cardinality(Entering) = 1
    /\ \E k \in DOMAIN detector.active_sequences :
          /\ detector.active_sequences[k].frames_in_roi = <<last.request.frame_id>>
          /\ detector.active_sequences[k].scooper_usage_frames = <<TRUE>>
    /\ \E k \in DOMAIN detector.active_sequences :
          Len(detector.active_sequences[k].frames_in_roi) >= 2

\* The (hand, ROI) pairs of the last analyzed request whose hand is outside
\* the ROI while its key had an active sequence before.
Exiting ==
    LET r == last.request
        w == associate_hands_with_workers(r.hands, r.persons)
    IN {p \in (DOMAIN r.hands) \X (DOMAIN r.rois) :
          /\ ~is_in_roi(r.hands[p[1]], r.rois[p[2]])
          /\ sequence_key_of(hand_id_of(p[1] - 1, w[p[1]]), r.rois[p[2]].name)
                \in last.active_before}

\* C15: after a frame that shows a hand outside an ROI for which it had an
\* active sequence, the sequence is no longer active and is in the completed
\* history, complete, with that frame as exit_frame.
C15_CloseOnExit ==
    LET r == last.request
        w == associate_hands_with_workers(r.hands, r.persons)
    IN \A p \in Exiting :
          LET hand_id == hand_id_of(p[1] - 1, w[p[1]])
              key == hand_id \o "_" \o r.rois[p[2]].name
          IN /\ key \notin DOMAIN detector.active_sequences
             /\ \E k \in DOMAIN detector.completed_sequences :
                   LET q == detector.completed_sequences[k]
                   IN /\ q.hand_id = hand_id
                      /\ q.roi_name = r.rois[p[2]].name
                      /\ q.exit_frame = r.frame_id
                      /\ q.is_complete /\ ~q.is_active
                      /\ k > Len(detector.completed_sequences) - Cardinality(Exiting)

\* A hand was inside the ROI in two frames and outside in the next: its
\* sequence of two frames is closed with the third as exit_frame.
C15_Witness ==
    /\ Exiting # {}
    /\ \E k \in DOMAIN detector.completed_sequences :
          LET q == detector.completed_sequences[k]
          IN /\ Len(q.frames_in_roi) = 2
             /\ q.frames_in_roi[2] = q.frames_in_roi[1] + 1
             /\ q.exit_frame = q.frames_in_roi[2] + 1
             /\ q.exit_frame = last.request.frame_id
             /\ sequence_key_of(q.hand_id, q.roi_name) \notin DOMAIN detector.active_sequences

\* C17 (as claimed): every sequence that has stopped being active, by the
\* hand's exit or by the staleness force-close, is in the completed history,
\* marked complete: the history holds as many complete sequences of a key as
\* sequences of that key have stopped being active.
C17_ClosedAreCompleted ==
    \A c \in closed :
        Cardinality({k \in DOMAIN detector.completed_sequences :
                        LET q == detector.completed_sequences[k]
                        IN /\ sequence_key_of(q.hand_id, q.roi_name) = c.sequence_key
                           /\ q.is_complete})
            >= Cardinality({x \in closed : x.sequence_key = c.sequence_key})

\* C18: once the janitors have run at the end of an analysis (no handler is
\* suspended before them), no active sequence has an entry more than 30 s
\* old; a sequence of a hand that has disappeared is gone after the first
\* frame analyzed more than 30 s after its entry.
C18_NoStaleActive ==
    (\A t \in Tasks : tasks[t].pc = "idle") =>
        \A k \in DOMAIN detector.active_sequences :
            now - detector.active_sequences[k].entry_time <= 30

\* The hand of a sequence has disappeared, and the first frame analyzed after
\* the staleness budget, a frame without hands, had the janitor remove it.
C18_Witness ==
    /\ \A t \in Tasks : tasks[t].pc = "idle"
    /\ last.request.hands = <<>>
    /\ last.active_before # {}
    /\ detector.active_sequences = <<>>
    /\ \E c \in closed : c.by = "janitor" /\ c.n = last.n /\ c.sequence_key \in last.active_before

\* C19 (as claimed): after every analyzed frame the number of active
\* sequences is at most the number of hand detections of that frame times
\* the number of ROIs supplied with it.
C19_ActiveBound ==
    (\A t \in Tasks : tasks[t].pc = "idle") =>
        Cardinality(DOMAIN detector.active_sequences)
            <= Len(last.request.hands) * Len(last.request.rois)

\* The closes by exit so far; run n of the loop analyzes frame n here.
ExitCloses == {c \in closed : c.by = "exit"}

\* The close c is in the completed history.
Retained(c) ==
    \E k \in DOMAIN detector.completed_sequences :
        LET q == detector.completed_sequences[k]
        IN q.hand_id \o "_" \o q.roi_name = c.sequence_key /\ q.exit_frame = c.n

\* C20: once the janitors have run at the end of an analysis, the completed
\* history holds at most 50 sequences, in completion order, and they are the
\* most recently completed ones: all of them while there are at most 50, the
\* last 50 afterwards.
C20_HistoryRing ==
    (tasks[1].pc = "idle" /\ analyses = frame_count) =>
        LET h == detector.completed_sequences
        IN /\ Len(h) <= 50
           /\ Len(h) = IF Cardinality(ExitCloses) <= 50 THEN Cardinality(ExitCloses) ELSE 50
           /\ \A k \in 1..(Len(h) - 1) :
                 \/ h[k].exit_frame < h[k + 1].exit_frame
                 \/ h[k].exit_frame = h[k + 1].exit_frame /\ h[k].sequence_id < h[k + 1].sequence_id
           /\ \A k \in DOMAIN h : h[k].is_complete
           /\ \A c \in ExitCloses :
                 \/ Retained(c)
                 \/ \A k \in DOMAIN h : c.n < h[k].exit_frame

\* More than 50 sequences have been completed and the history holds 50.
C20_Witness ==
    /\ tasks[1].pc = "idle"
    /\ Cardinality(ExitCloses) > 50
    /\ Len(detector.completed_sequences) = 50
    /\ \E c \in ExitCloses : ~Retained(c)

\* C22 (as claimed): a frame for which the detector call failed and ROI
\* zones were fetched is analyzed, and analyzed with no detection at all.
C22_FailedDetectorEmptyList ==
    (reader.frame_id > 0 /\ ~reader.detector_ok /\ reader.roi_zones # <<>>)
        => /\ last.request.frame_id = reader.frame_id
           /\ last.request.hands = <<>>
           /\ last.request.persons = <<>>
           /\ last.request.scoopers = <<>>

\* C23 (as claimed): a frame for which the ROI fetch failed, at most 60 s
\* after a fetch that returned ROI zones, is sent to the analysis with those
\* ROI zones.
C23_SnapshotReused ==
    (/\ reader.frame_id > 0
     /\ ~reader.rois_ok
     /\ reader.fetched # <<>>
     /\ now - reader.fetched_at <= 60)
        => /\ posted.body.frame_id = reader.frame_id
           /\ posted.body.rois = reader.fetched

\* C24 (as claimed): for 60 s from its emission an event is not lost to the
\* Violation Store: the store has it, or a handler still holds it for a write.
C24_FailedWriteKept ==
    \A e \in events :
        \/ e.violation_id \in DOMAIN store.posts
        \/ \E t \in Tasks : tasks[t].pc = "save" /\ e \in Range(tasks[t].violations)
        \/ now - e.timestamp > 60

\* The centers of the hand detections of a body that have every key.
WellFormedHands(detection_data) ==
    LET well_formed(d) == DetectionKeys \subseteq DOMAIN d /\ d.class_name = "hand"
        selected == SelectSeq(detection_data, well_formed)
    IN [k \in DOMAIN selected |-> selected[k].center]

\* C26 (as claimed): every body posted to /analyze is answered normally, and
\* its well-formed hand detections are the hands the detection loop has run on.
C26_MalformedSkipped ==
    posted.body.frame_id > 0
        => /\ posted.status = 200
           /\ last.request.frame_id = posted.body.frame_id
           /\ last.request.hands = WellFormedHands(posted.body.detections)

\* The persons of the list that no other person is nearer to the hand than.
NearestPersons(hand, persons) ==
    {k \in DOMAIN persons :
        \A j \in DOMAIN persons :
            calculate_distance(hand, persons[k]) <= calculate_distance(hand, persons[j])}

\* C27 (as claimed): the worker id of a sequence opened by the latest frame is
\* the 1-based index of a person nearest to the hand if that person is at
\* most 150 px away, and none (0) otherwise.
C27_NearestWithin150 ==
    \A key \in DOMAIN detector.active_sequences :
        LET q == detector.active_sequences[key]
            hand == q.positions_in_roi[1]
            nearest == NearestPersons(hand, last.request.persons)
            in_reach == {k \in nearest :
                            calculate_distance(hand, last.request.persons[k])
                                <= HAND_WORKER_ASSOC_MAX_PX * HAND_WORKER_ASSOC_MAX_PX}
        IN q.entry_frame = last.request.frame_id
             => IF in_reach # {} THEN q.worker_id \in in_reach ELSE q.worker_id = 0

\* The h-th hand of the latest frame, which has no person detection, has an
\* active sequence in the ROI of this name.
ActiveIn(h, roi_name) ==
    sequence_key_of(hand_id_of(h - 1, 0), roi_name) \in DOMAIN detector.active_sequences

Corners(roi) ==
    <<Pt(roi.x, roi.y), Pt(roi.x + roi.width, roi.y),
      Pt(roi.x + roi.width, roi.y + roi.height), Pt(roi.x, roi.y + roi.height)>>

\* C28 (as claimed): a hand is found in a rectangle ROI exactly if it is
\* found in the polygon ROI of the rectangle's four corners, for hands on the
\* rectangle's edges and corners too.
C28_RectangleAsPolygon ==
    \A j1 \in DOMAIN last.request.rois, j2 \in DOMAIN last.request.rois :
        LET r1 == last.request.rois[j1]
            r2 == last.request.rois[j2]
        IN (r1.shape = "rectangle" /\ r2.shape = "polygon" /\ r2.points = Corners(r1))
             => \A h \in DOMAIN last.request.hands :
                    ActiveIn(h, r1.name) <=> ActiveIn(h, r2.name)

Vertices(coordinates) ==
    [k \in DOMAIN coordinates |-> Pt(coordinates[k][1], coordinates[k][2])]

\* C29 (as claimed): a hand is found in a polygon ROI posted with three or
\* more coordinates exactly if its center passes the ray-casting test against
\* those coordinates.
C29_PolygonByCoordinates ==
    (posted.status = 200 /\ posted.body.frame_id = last.request.frame_id)
        => \A j \in DOMAIN posted.body.rois :
               LET r == posted.body.rois[j]
               IN (/\ get(r, "shape", "rectangle") = "polygon"
                   /\ "coordinates" \in DOMAIN r
                   /\ Len(r.coordinates) >= 3)
                    => \A h \in DOMAIN last.request.hands :
                           ActiveIn(h, r.name)
                             <=> point_in_polygon(last.request.hands[h].x,
                                                  last.request.hands[h].y,
                                                  Vertices(r.coordinates))

\* C30: after a frame with a polygon ROI of fewer than 3 points, no hand of
\* the frame has a sequence in that ROI and the frame emitted no event for it.
C30_DegeneratePolygonEmpty ==
    \A j \in DOMAIN last.request.rois :
        LET r == last.request.rois[j]
        IN (r.shape = "polygon" /\ Len(r.points) < 3)
             => /\ \A h \in DOMAIN last.request.hands : ~ActiveIn(h, r.name)
                /\ \A e \in last.emitted : e.roi_name # r.name

\* A frame with a polygon ROI of two points and a hand on the segment
\* between them, and no sequence of the hand in that ROI.
C30_Witness ==
    \E j \in DOMAIN last.request.rois :
        LET r == last.request.rois[j]
        IN /\ r.shape = "polygon"
           /\ Len(r.points) = 2
           /\ \E h \in DOMAIN last.request.hands :
                 /\ edge_flips(last.request.hands[h].x, last.request.hands[h].y,
                               r.points[1], r.points[2])
                 /\ ~ActiveIn(h, r.name)
                 /\ ActiveIn(h, "rect")

\* The weighted sum of the three sub-scores of the pair last evaluated.
WeightedSpatialScore ==
    (calculate_bbox_overlap(usage.hand.bbox, usage.scooper.bbox) * 5
     + analyze_hand_scooper_position(<<usage.hand.center, usage.scooper.center>>).value * 3
     + analyze_hand_scooper_size_relationship(usage.hand.bbox, usage.scooper.bbox) * 2)
        \div 10

\* C31: the spatial score of a hand and a scooper is 0.5 IoU of their boxes
\* + 0.3 directional alignment + 0.2 size-ratio score, clamped to [0, 1].
C31_SpatialScoreWeighted ==
    usage.evaluated => usage.spatial_score = Min2(Unit, Max2(0, WeightedSpatialScore))

\* The steps between the last (at most 5) positions of a tracker.
Steps(tracker) == Len(LastN(tracker.hand_positions, 5)) - 1

TotalMovement(tracker) == total_movement_from(LastN(tracker.hand_positions, 5), 2)

Reversals(tracker) == direction_changes_from(LastN(tracker.hand_positions, 5), 3)

\* C32: with the average step movement taken over the steps between the last
\* (at most 5) positions, of which there are 3 or more, the action is
\* cleaning iff there are 2 or more reversals and the average is in [15, 40],
\* idle iff the average is below 8, grabbing iff it is above 12 with at most
\* 1 reversal, unknown otherwise.
C32_ActionFromMovement ==
    \A w \in DOMAIN workers :
        LET tracker == workers[w]
            cleaning == /\ Reversals(tracker) >= 2
                        /\ 15 * Steps(tracker) <= TotalMovement(tracker)
                        /\ TotalMovement(tracker) <= 40 * Steps(tracker)
            idle == TotalMovement(tracker) < 8 * Steps(tracker)
            grabbing == /\ TotalMovement(tracker) > 12 * Steps(tracker)
                        /\ Reversals(tracker) <= 1
        IN Len(tracker.hand_positions) >= 3 =>
              /\ tracker.current_action = "cleaning" <=> cleaning
              /\ tracker.current_action = "idle" <=> idle
              /\ tracker.current_action = "grabbing" <=> grabbing
              /\ tracker.current_action = "unknown" <=> ~(cleaning \/ idle \/ grabbing)

\* The request has no hand at the index of the sequence, or no ROI of the
\* sequence's name.
Absent(sequence, request) ==
    \/ \A i \in 1..Len(request.hands), w \in 0..Len(request.persons) :
           sequence.hand_id # hand_id_of(i - 1, w)
    \/ \A j \in 1..Len(request.rois) : request.rois[j].name # sequence.roi_name

\* C34: a run of the loop on a frame that lacks the hand index or the ROI of
\* an active sequence leaves that sequence as it was and emits nothing for
\* it; if the sequence is gone after the run, it is the janitor that removed
\* it, not an exit.
C34_AbsentLeavesSequence ==
    [][\A k \in DOMAIN detector.active_sequences :
          (analyses' = analyses + 1 /\ Absent(detector.active_sequences[k], last'.request)) =>
              /\ k \in DOMAIN detector'.active_sequences
                     => detector'.active_sequences[k] = detector.active_sequences[k]
              /\ k \notin DOMAIN detector'.active_sequences
                     => [sequence_key |-> k, n |-> analyses', by |-> "janitor"] \in closed'
              /\ [sequence_key |-> k, n |-> analyses', by |-> "exit"] \notin closed'
              /\ \A e \in last'.emitted : e.sequence_key # k]_vars

\* A sequence is active that the last frame, which lacked its hand or its
\* ROI, did not extend; and another such sequence was removed by the janitor
\* in an earlier run.
C34_Witness ==
    /\ \E k \in DOMAIN detector.active_sequences \cap last.active_before :
           /\ Absent(detector.active_sequences[k], last.request)
           /\ tasks[1].pc = "idle"
    /\ \E c \in closed : c.by = "janitor"

\* The key of hand h of the last request in ROI j of it.
KeyOf(h, j) ==
    sequence_key_of(
        hand_id_of(h - 1, associate_hands_with_workers(last.request.hands,
                                                       last.request.persons)[h]),
        last.request.rois[j].name)

\* C36: after a run, a hand inside an ROI that does not require the scooper
\* has no active sequence in it, the run opened none and emitted nothing for
\* it, and a sequence the hand had there before the run was closed by the run
\* as an exit.
C36_NoScooperRequired ==
    \A h \in 1..Len(last.request.hands), j \in 1..Len(last.request.rois) :
        (/\ ~last.request.rois[j].requires_scooper
         /\ is_in_roi(last.request.hands[h], last.request.rois[j]))
            => /\ KeyOf(h, j) \notin DOMAIN detector.active_sequences
               /\ \A o \in opened : ~(o.sequence_key = KeyOf(h, j) /\ o.n = last.n)
               /\ \A e \in last.emitted : e.sequence_key # KeyOf(h, j)
               /\ KeyOf(h, j) \in last.active_before
                      => [sequence_key |-> KeyOf(h, j), n |-> last.n, by |-> "exit"] \in closed

\* A hand had a sequence in the ROI and is inside it in the last frame, in
\* which the ROI does not require the scooper.
C36_Witness ==
    \E h \in 1..Len(last.request.hands), j \in 1..Len(last.request.rois) :
        /\ ~last.request.rois[j].requires_scooper
        /\ is_in_roi(last.request.hands[h], last.request.rois[j])
        /\ KeyOf(h, j) \in last.active_before
        /\ last.emitted = {}

\* C35: once the request has returned, the store has accepted exactly one
\* POST of each event that an analysis returned.
C35_PostedOnce ==
    tasks[1].pc = "idle" =>
        \A e \in events :
            /\ e.violation_id \in DOMAIN store.posts
            /\ store.posts[e.violation_id] = 1

\* The hand identity of hand h of the last request.
HandIdOf(h) ==
    hand_id_of(h - 1, associate_hands_with_workers(last.request.hands,
                                                   last.request.persons)[h])

\* C37: the active sequence under the key of a hand identity and an ROI name
\* is the sequence of that hand identity and that ROI name, and of no other
\* pair: distinct pairs have distinct keys.
C37_DistinctKeys ==
    \A h \in 1..Len(last.request.hands), j \in 1..Len(last.request.rois) :
        LET key == sequence_key_of(HandIdOf(h), last.request.rois[j].name)
        IN key \in DOMAIN detector.active_sequences
              => /\ detector.active_sequences[key].hand_id = HandIdOf(h)
                 /\ detector.active_sequences[key].roi_name = last.request.rois[j].name

====
